---- MODULE Spec2Model ----
(***************************************************************************)
(* A state-machine model of slamdunk's conversion counter                  *)
(* (slamdunk/dunks/tcounter.py): computeTconversions, the per-interval     *)
(* scan that folds classified reads into interval summaries and a          *)
(* bedgraph accumulator, and collapse, the gene roll-up.                   *)
(*                                                                         *)
(* Floating-point values are modelled as exact fractions in lowest terms   *)
(* ([num, den]); a Python exception ends the run (pc = "failed").          *)
(***************************************************************************)
EXTENDS Integers, Sequences, FiniteSets, Bags, TLC

\* ------------------------------------------------------------------ bounds
\* intervals read from the BED file in one run
MaxIntervals == 2
\* reads supplied by the read source over the whole run
MaxReads == 3
\* length of an ordinary interval
MaxLen == 1
\* reference span of an ordinary read
MaxSpan == 2
\* mapped reads reported for a sample that has any
MaxMapped == 3
\* reads of a run whose read source is traced
MaxTracedReads == 2
\* lines of the table handed to collapse
MaxLines == 3
\* samples handed to one invocation
MaxSamples == 2
\* the thread number of an invocation
MaxThreads == 2

\* -------------------------------------------------------------- arithmetic
Million == 1000000

RECURSIVE GCD(_, _)
GCD(a, b) == IF b = 0 THEN a ELSE GCD(b, a % b)

\* the real value n / d (d > 0, n >= 0) as a fraction in lowest terms
Ratio(n, d) == LET g == GCD(n, d) IN [num |-> n \div g, den |-> d \div g]

\* a <= b for fractions with positive denominators
RatioLeq(a, b) == a.num * b.den <= b.num * a.den

\* k times the fraction a
RatioTimes(k, a) == Ratio(k * a.num, a.den)

Zero == [num |-> 0, den |-> 1]

\* -------------------------------------------------------------- reference
\* the chromosomes the reference FASTA lists
references == {"chr1"}

\* the bases of the genome as stored (soft-masked bases are lower case);
\* positions 100..109 of every chromosome are T
Motif == <<"T", "a", "C", "t", "A">>

Genome(chr, pos) == IF pos \in 100..109 THEN "T" ELSE Motif[(pos % Len(Motif)) + 1]

\* str.upper() on one base
Upper(b) == CASE b = "a" -> "A" [] b = "t" -> "T" [] b = "c" -> "C" [] b = "g" -> "G" [] OTHER -> b

\* referenceFile.fetch(region = chr:start+1-stop): the bases start..stop-1
fetch(chr, start, stop) == [i \in 1..(stop - start) |-> Genome(chr, start + i - 1)]

\* refSeq.count(b)
count(seq, b) == Cardinality({i \in DOMAIN seq : seq[i] = b})

\* readIterator.getRefSeq(): the upper-cased bases of the interval as the read
\* source sees them
getRefSeq(utr) == [i \in 1..(utr.stop - utr.start) |-> Upper(Genome(utr.chromosome, utr.start + i - 1))]

\* ----------------------------------------------------------------- inputs
\* BED entries: stranded intervals on a chromosome of the reference, an
\* interval on a chromosome the reference lacks, an entry without strand
\* information ("."), an entry with a negative start, and chr1:100-110 (+)
Intervals ==
    { [chromosome |-> "chr1", start |-> st, stop |-> st + l, strand |-> d, name |-> "g1"] :
        st \in {0, 1}, l \in 1..MaxLen, d \in {"+", "-"} }
    \cup { [chromosome |-> "chrU", start |-> 0, stop |-> MaxLen, strand |-> "+", name |-> "g1"] }
    \cup { [chromosome |-> "chr1", start |-> e[1], stop |-> e[1] + 1, strand |-> e[2], name |-> "g1"] :
        e \in {<<-1, "+">>, <<0, ".">>} }
    \cup { [chromosome |-> "chr1", start |-> 100, stop |-> 110, strand |-> "+", name |-> "g2"] }

\* every entry counts as stranded
hasStrandAlways(utr) == TRUE

hasStrand(utr) == utr.strand \in {"+", "-"}

getLength(utr) == utr.stop - utr.start

\* the mismatch lists of a read spanning [s, e): at most one mismatch per
\* reference position, each flagged by isTCMismatch for the read's direction
RECURSIVE MismatchLists(_, _)
MismatchLists(s, e) ==
    IF s >= e THEN {<<>>}
    ELSE LET rest == MismatchLists(s + 1, e)
         IN rest \cup { <<[referencePosition |-> s, isTC |-> t]>> \o r : t \in BOOLEAN, r \in rest }

\* line 164: a TC read carries at least two conversions
ConversionThreshold == 2

tcCountOf(mm) == Cardinality({i \in DOMAIN mm : mm[i].isTC})

\* reads as the read source yields them; positions are offsets in the interval
ReadsSpanning(s, e) ==
    { [direction |-> d, startRefPos |-> s, endRefPos |-> e, mismatches |-> mm,
       tcCount |-> tcCountOf(mm), isTcRead |-> tcCountOf(mm) >= ConversionThreshold,
       isMultimapper |-> m] :
        d \in {"Forward", "Reverse"}, mm \in MismatchLists(s, e), m \in BOOLEAN }

\* readInRegion yields reads that overlap the interval
AllReads ==
    UNION { ReadsSpanning(s, s + l) : s \in -1..(MaxLen - 1), l \in 1..MaxSpan }
    \cup { [direction |-> d, startRefPos |-> 0, endRefPos |-> 10, mismatches |-> mm,
            tcCount |-> tcCountOf(mm), isTcRead |-> tcCountOf(mm) >= ConversionThreshold,
            isMultimapper |-> FALSE] :
             d \in {"Forward", "Reverse"},
             mm \in {<<>>, <<[referencePosition |-> 3, isTC |-> TRUE]>>} }

Reads(u) == { r \in AllReads : r.startRefPos < u.stop - u.start /\ r.endRefPos > 0 }

NoRead == [direction |-> "None"]

NoUtr == [strand |-> "None"]

\* ------------------------------------------------------------------ state
VARIABLES
    pc,                 \* computeTconversions: "loop", "reads"; collapse: "lines",
                        \* "genes"; both: "done", "failed"
    error,              \* the exception that ended the run, or "none"
    strictTCs,          \* the strict flag
    readNumber,         \* readstat.MappedReads
    bedSeen,            \* the intervals BedIterator has yielded so far
    bedLeft,            \* intervals BedIterator may still yield
    readsLeft,          \* reads the read source may still supply
    tracing,            \* whether the read source is traced
    utr,                \* the interval being scanned
    read,               \* in a traced run, the read folded last as the read source
                        \* yielded it
    streamMax,          \* in a traced run, the largest number of conversion
                        \* mismatches a read yielded so far carried
    Tcontent,
    tcCountUtr, coverageUtr,
    countFwd, tcCountFwd, countRev, tCountRev, multiMapFwd, multiMapRev,
    fileCSV,            \* the summary rows written
    stderr,             \* the warnings written
    conversionBedGraph, \* key <<chromosome, position, strand>> -> rate
    fileBedgraphPlus, fileBedgraphMinus,
    progress,
    \* collapse
    tcDict,             \* gene -> summed columns
    totalReadCount,     \* collapse's local readNumber
    fields,             \* the fields of the line read last, <<>> before the first line
    linesRead,          \* number of lines read from expandedCSV
    log,                \* the messages printed to the log
    outCSV,             \* the rows printed to collapsedCSV
    expandedCSV,        \* in a traced run, the lines read from expandedCSV so far
    \* the count stage of one invocation
    command,            \* "count" or "all"
    naming,             \* the -N name handed to runCount, "" if none
    threads,            \* n_jobs
    bams,               \* the sample files of the invocation
    outcome,            \* how the count run of each sample ends
    pool,               \* "idle", "running", "raised" or "finished"
    dispatched,         \* number of samples whose runCount has been started
    running,            \* samples whose runCount is under way
    completed,          \* samples whose runCount returned, outputs written
    outputs             \* sample -> the paths runCount computed for it

countVars == <<strictTCs, readNumber, bedSeen, bedLeft, readsLeft, tracing, utr, read, streamMax, Tcontent,
               tcCountUtr, coverageUtr, countFwd, tcCountFwd, countRev, tCountRev,
               multiMapFwd, multiMapRev, fileCSV, stderr, conversionBedGraph,
               fileBedgraphPlus, fileBedgraphMinus, progress>>

collapseVars == <<tcDict, totalReadCount, fields, linesRead, log, outCSV, expandedCSV>>

poolVars == <<command, naming, threads, bams, outcome, pool, dispatched, running, completed, outputs>>

vars == <<pc, error, countVars, collapseVars, poolVars>>

scanVars == <<Tcontent, tcCountUtr, coverageUtr, countFwd, tcCountFwd, countRev,
              tCountRev, multiMapFwd, multiMapRev>>

\* SlamSeqInterval(...): the summary record, its arguments in positional order
SlamSeqInterval(chromosome, start, stop, strand, name, Tc, readsCPM, coverageOnTs, conversionsOnTs, conversionRate, readCount, tcReadCount, multiMapCount) ==
    [chromosome |-> chromosome, start |-> start, stop |-> stop, strand |-> strand,
     name |-> name, Tcontent |-> Tc, readsCPM |-> readsCPM,
     coverageOnTs |-> coverageOnTs, conversionsOnTs |-> conversionsOnTs,
     conversionRate |-> conversionRate, readCount |-> readCount,
     tcReadCount |-> tcReadCount, multiMapCount |-> multiMapCount]

\* ------------------------------------------------------- the scan of a read
\* the conversion count is cleared but the mismatch list is kept
StrictFilterKeepingMismatches(r, strict) ==
    IF (~r.isTcRead) /\ strict THEN [r EXCEPT !.tcCount = 0] ELSE r

\* lines 165-169: a read that is no TC read loses its conversions in strict mode
StrictFilter(r, strict) ==
    IF (~r.isTcRead) /\ strict
    THEN [r EXCEPT !.tcCount = 0, !.mismatches = <<>>]
    ELSE r

\* a flagged mismatch before the interval counts at its first offset
AddMismatchesClamped(tc, mm, len) ==
    [k \in DOMAIN tc |->
        tc[k] + Cardinality({ j \in DOMAIN mm :
                                /\ mm[j].isTC
                                /\ \/ mm[j].referencePosition = k - 1
                                   \/ (k = 1 /\ mm[j].referencePosition < 0) })]

\* lines 184-186: one conversion per flagged mismatch inside the interval
RECURSIVE AddMismatches(_, _, _)
AddMismatches(tc, mm, len) ==
    IF mm = <<>> THEN tc
    ELSE LET m == Head(mm)
             hit == m.isTC /\ m.referencePosition >= 0 /\ m.referencePosition < len
         IN AddMismatches(IF hit THEN [tc EXCEPT ![m.referencePosition + 1] = @ + 1] ELSE tc,
                          Tail(mm), len)

\* the first offset of the span is left out
AddCoverageFromSecond(cov, i, e, len) ==
    [k \in DOMAIN cov |-> IF i + 1 <= k - 1 /\ k - 1 < e THEN cov[k] + 1 ELSE cov[k]]

\* lines 188-190: one unit of coverage per offset of the span inside the interval
RECURSIVE AddCoverage(_, _, _, _)
AddCoverage(cov, i, e, len) ==
    IF i >= e THEN cov
    ELSE AddCoverage(IF i >= 0 /\ i < len THEN [cov EXCEPT ![i + 1] = @ + 1] ELSE cov,
                     i + 1, e, len)

\* lines 171-182: the counter of a direction after read r (r already filtered)
Bump(n, cond) == IF cond THEN n + 1 ELSE n

isReverse(r) == r.direction = "Reverse"

\* ---------------------------------------------------- the interval summary
EmptyDict == [k \in {} |-> Zero]

\* a key that is present keeps its value
DictSetKeepFirst(d, key, val) ==
    [k \in (DOMAIN d) \cup {key} |-> IF k \in DOMAIN d THEN d[k] ELSE val]

DictSet(d, key, val) == [k \in (DOMAIN d) \cup {key} |-> IF k = key THEN val ELSE d[k]]

\* line 193: the annotated direction has at least one read
Supported(u, cF, cR) == (u.strand = "+" /\ cF > 0) \/ (u.strand = "-" /\ cR > 0)

\* line 205: more reads on the opposite strand than on the annotated one
Mismatched(u, cF, cR) == (u.strand = "-" /\ cF > cR) \/ (u.strand = "+" /\ cR > cF)

\* line 194
tcRateUtrOf(tc, cov) ==
    [i \in DOMAIN cov |-> IF cov[i] > 0 THEN Ratio(tc[i] * 100, cov[i]) ELSE Zero]

\* every covered position counts, whatever its reference base
ConvertibleAnyBase(u, cov, refSeq, position) == cov[position + 1] > 0

\* line 226: a covered position whose reference base is the convertible base
Convertible(u, cov, refSeq, position) ==
    /\ cov[position + 1] > 0
    /\ \/ (u.strand = "+" /\ refSeq[position + 1] = "T")
       \/ (u.strand = "-" /\ refSeq[position + 1] = "A")

\* lines 219-237: the loop over the positions of the interval
RECURSIVE ScanPositions(_, _, _, _, _, _)
ScanPositions(u, cov, tc, refSeq, position, acc) ==
    IF position >= Len(cov) THEN acc
    ELSE ScanPositions(u, cov, tc, refSeq, position + 1,
            IF Convertible(u, cov, refSeq, position)
            THEN [coverageOnTs |-> acc.coverageOnTs + cov[position + 1],
                  conversionsOnTs |-> acc.conversionsOnTs + tc[position + 1],
                  bedGraph |-> DictSet(acc.bedGraph,
                                       <<u.chromosome, u.start + position, u.strand>>,
                                       tcRateUtrOf(tc, cov)[position + 1])]
            ELSE acc)

\* the share of the mapped reads, not scaled to a million
readsShareOf(readCount, N) == IF N > 0 THEN Ratio(readCount, N) ELSE Zero

\* lines 245-247
readsCPMOf(readCount, N) == IF N > 0 THEN Ratio(readCount * Million, N) ELSE Zero

\* the rate as a percentage, as the per-position rate of line 194
conversionRatePercent(conversionsOnTs, coverageOnTs) ==
    IF coverageOnTs > 0 THEN Ratio(conversionsOnTs * 100, coverageOnTs) ELSE Zero

\* lines 252-254
conversionRateOf(conversionsOnTs, coverageOnTs) ==
    IF coverageOnTs > 0 THEN Ratio(conversionsOnTs, coverageOnTs) ELSE Zero

\* line 130: the record built before the reference is looked at
BlankSummary(u) ==
    SlamSeqInterval(u.chromosome, u.start, u.stop, u.strand, u.name, 0, Zero, -1, 0, Zero, 0, 0, 0)

\* the counters of the opposite direction
AuthoritativeSwapped(u, fwd, rev) == IF u.strand = "-" THEN fwd ELSE rev

\* lines 196-203: the counters of the annotated direction
Authoritative(u, fwd, rev) == IF u.strand = "-" THEN rev ELSE fwd

\* the converted reads of both directions are reported
SummaryBothDirections(u, Tc, cov, tc, cF, tF, cR, tR, mF, mR, N, acc) ==
    IF Supported(u, cF, cR)
    THEN SlamSeqInterval(u.chromosome, u.start, u.stop, u.strand, u.name, Tc,
                         readsCPMOf(Authoritative(u, cF, cR), N),
                         acc.coverageOnTs, acc.conversionsOnTs,
                         conversionRateOf(acc.conversionsOnTs, acc.coverageOnTs),
                         Authoritative(u, cF, cR), tF + tR,
                         Authoritative(u, mF, mR))
    ELSE BlankSummary(u)

\* lines 193-255: the record printed for the interval
Summary(u, Tc, cov, tc, cF, tF, cR, tR, mF, mR, N, acc) ==
    IF Supported(u, cF, cR)
    THEN SlamSeqInterval(u.chromosome, u.start, u.stop, u.strand, u.name, Tc,
                         readsCPMOf(Authoritative(u, cF, cR), N),
                         acc.coverageOnTs, acc.conversionsOnTs,
                         conversionRateOf(acc.conversionsOnTs, acc.coverageOnTs),
                         Authoritative(u, cF, cR), Authoritative(u, tF, tR),
                         Authoritative(u, mF, mR))
    ELSE BlankSummary(u)

\* the row is printed only if the annotated strand has reads
printRowIfSupported(file, row) == IF row.coverageOnTs = -1 THEN file ELSE Append(file, row)

\* line 258: print(slamSeqUtr, file=fileCSV)
printRow(file, row) == Append(file, row)

\* every entry goes to the file, whatever its strand
BedgraphRowsAnyStrand(d, keys, plus, file) ==
    file (+) SetToBag({ <<k[1], k[2], k[2] + 1, d[k]>> : k \in keys })

\* lines 270-275: the rows of one strand's file; the order in which the
\* mapping is iterated is not modelled, a file is the bag of its rows
RECURSIVE BedgraphRows(_, _, _, _)
BedgraphRows(d, keys, plus, file) ==
    IF keys = {} THEN file
    ELSE LET k == CHOOSE x \in keys : TRUE
             row == <<k[1], k[2], k[2] + 1, d[k]>>
         IN BedgraphRows(d, keys \ {k}, plus,
                         IF (k[3] = "+") = plus THEN file (+) SetToBag({row}) ELSE file)

\* ------------------------------------------------------- the gene roll-up
\* int(text) on the numerals that occur in the table
int(text) == CASE text = "-1" -> -1 [] text = "0" -> 0 [] text = "1" -> 1 [] text = "2" -> 2

\* max(a, 0)
max0(a) == IF a > 0 THEN a ELSE 0

\* lines of expandedCSV split at tabs: rows of 14 fields (gene name at index 3,
\* numbers at 4 and 8..13) and the same rows cut to 13 fields
Rows14 ==
    { <<"chr1", "0", "2", gene, "2", "+", "0.0", "0.0", "1", cov, conv, rc, tc, "0">> :
        gene \in {"ga", "gb"}, cov \in {"-1", "2"}, conv \in {"0", "1"},
        rc \in {"0", "1", "2"}, tc \in {"0", "1"} }

Lines == Rows14 \cup { SubSeq(r, 1, 13) : r \in { x \in Rows14 : x[10] = "2" /\ x[11] = "1" } }

\* lines 38-63: the columns of a row, clamped at 0
Columns(line) ==
    [length |-> max0(int(line[5])), Tcontent |-> max0(int(line[9])),
     coverageOnTs |-> max0(int(line[10])), conversionsOnTs |-> max0(int(line[11])),
     readCount |-> max0(int(line[12])), tcReadCount |-> max0(int(line[13])),
     multimapCount |-> max0(int(line[14]))]

\* lines 48-54
AddColumns(a, b) ==
    [length |-> a.length + b.length, Tcontent |-> a.Tcontent + b.Tcontent,
     coverageOnTs |-> a.coverageOnTs + b.coverageOnTs,
     conversionsOnTs |-> a.conversionsOnTs + b.conversionsOnTs,
     readCount |-> a.readCount + b.readCount, tcReadCount |-> a.tcReadCount + b.tcReadCount,
     multimapCount |-> a.multimapCount + b.multimapCount]

\* gene names in ascending order of Python's string comparison
GeneOrder == <<"ga", "gb">>

\* sorted(keys)
sorted(keys) == SelectSeq(GeneOrder, LAMBDA g : g \in keys)

\* float(a) / float(b) for b # 0
SignedRatio(a, b) == IF b > 0 THEN Ratio(a, b) ELSE Ratio(0 - a, 0 - b)

\* lines 47-63: the dictionary after a line with 14 fields
Accumulate(d, line) ==
    DictSet(d, line[4], IF line[4] \in DOMAIN d THEN AddColumns(d[line[4]], Columns(line))
                                                ELSE Columns(line))

\* the gene's reads over the gene's own reads
geneReadsCPMOwnTotal(g, total) ==
    SignedRatio(g.readCount * Million, IF g.readCount > 0 THEN g.readCount ELSE 1)

\* line 79: float(readCount) / float(readNumber) * 1000000, readNumber # 0
geneReadsCPM(g, total) == SignedRatio(g.readCount * Million, total)

\* lines 77-89: the row of a gene, readNumber # 0
geneRow(gene, g, total) ==
    <<gene, g.length, geneReadsCPM(g, total),
      IF g.coverageOnTs > 0 THEN Ratio(g.conversionsOnTs, g.coverageOnTs) ELSE Zero,
      g.Tcontent, g.coverageOnTs, g.conversionsOnTs, g.readCount, g.tcReadCount,
      g.multimapCount>>

\* line 73
CollapsedHeader ==
    <<"gene_name", "length", "readsCPM", "conversionRate", "Tcontent", "coverageOnTs",
      "conversionsOnTs", "readCount", "tcReadCount", "multimapCount">>

\* ------------------------------------------------- the count stage (slamdunk.py)
\* a file name is its stem, kept as the list of the parts it was built from,
\* and its extension; a path is a directory and a file name
SamplePaths ==
    { [dir |-> d, file |-> [stem |-> <<n>>, ext |-> ".bam"]] : d \in {"runA", "runB"}, n \in {"x", "y"} }

\* the lists of distinct sample files an invocation can be given
SampleLists ==
    { l \in UNION { [1..n -> SamplePaths] : n \in 1..MaxSamples } :
        \A i, j \in DOMAIN l : i # j => l[i] # l[j] }

\* os.path.basename
basename(path) == path.file

\* os.path.join(directory, file)
join(directory, file) == [dir |-> directory, file |-> file]

\* a -N name used in the place of a file name
NameFile(name) == [stem |-> <<name>>, ext |-> ""]

\* replaceExtension(file, newExtension, suffix): the stem, the suffix, the new extension
replaceExtension(inFile, newExtension, suffix) == [stem |-> Append(inFile.stem, suffix), ext |-> newExtension]

\* slamdunk.py lines 198-201: the files runCount writes for a sample
runCountPaths(bam, outputDirectory, name) ==
    LET base == IF name = "" THEN basename(bam) ELSE NameFile(name)
    IN [outputCSV |-> join(outputDirectory, replaceExtension(base, ".tsv", "_tcount")),
        outputBedgraphPlus |-> join(outputDirectory, replaceExtension(base, ".bedgraph", "_tcount_plus")),
        outputBedgraphMinus |-> join(outputDirectory, replaceExtension(base, ".bedgraph", "_tcount_mins")),
        outputLOG |-> join(outputDirectory, replaceExtension(base, ".log", "_tcount"))]

\* slamdunk.py lines 277-281 and 306-310 of runAll: the file a stage hands to the next
dunkbuffer(dunkPath, file, name, suffix) ==
    IF name = "" THEN join(dunkPath, replaceExtension(basename(file), ".bam", suffix))
    ELSE join(dunkPath, replaceExtension(NameFile(name), ".bam", suffix))

\* the bam runCount is called with for sample tid: args.bam[tid] of the count
\* command (line 536), dunkbufferIn[tid] of runAll (line 348)
countInput(tid) ==
    IF command = "count" THEN bams[tid]
    ELSE dunkbuffer("filter", dunkbuffer("map", bams[tid], naming, "_slamdunk_mapped"),
                    naming, "_filtered")

\* the output directory runCount is called with
countDirectory == IF command = "count" THEN "outputDir" ELSE "count"

\* ---------------------------------------------------------------- actions
InitCount ==
    /\ bedSeen = <<>>
    /\ utr = NoUtr
    /\ read = NoRead
    /\ streamMax = 0
    /\ Tcontent = 0
    /\ tcCountUtr = <<>>
    /\ coverageUtr = <<>>
    /\ countFwd = 0 /\ tcCountFwd = 0 /\ countRev = 0 /\ tCountRev = 0
    /\ multiMapFwd = 0 /\ multiMapRev = 0
    /\ fileCSV = <<>>
    /\ stderr = <<>>
    /\ conversionBedGraph = EmptyDict
    /\ fileBedgraphPlus = EmptyBag
    /\ fileBedgraphMinus = EmptyBag
    /\ progress = 0

InitCollapse ==
    /\ tcDict = EmptyDict
    /\ totalReadCount = 0
    /\ fields = <<>>
    /\ linesRead = 0
    /\ log = <<>>
    /\ outCSV = <<>>
    /\ expandedCSV = <<>>

\* lines 128-152: BedIterator yields the next interval
NextUtr ==
    /\ pc = "loop"
    /\ bedLeft > 0
    /\ bedLeft' = bedLeft - 1
    /\ \E u \in Intervals :
        /\ bedSeen' = Append(bedSeen, u)
        /\ utr' = u
        /\ IF ~hasStrand(u)
           THEN /\ pc' = "failed"
                /\ error' = "RuntimeError"
                /\ UNCHANGED scanVars
           ELSE IF u.start < 0
           THEN /\ pc' = "failed"
                /\ error' = "TypeError"
                /\ UNCHANGED scanVars
           ELSE /\ pc' = "reads"
                /\ error' = error
                /\ Tcontent' = IF u.chromosome \in references
                               THEN LET refSeq == [i \in 1..getLength(u) |->
                                                     Upper(fetch(u.chromosome, u.start, u.stop)[i])]
                                    IN IF u.strand = "-" THEN count(refSeq, "A")
                                                         ELSE count(refSeq, "T")
                               ELSE 0
                /\ tcCountUtr' = [i \in 1..getLength(u) |-> 0]
                /\ coverageUtr' = [i \in 1..getLength(u) |-> 0]
                /\ countFwd' = 0 /\ tcCountFwd' = 0 /\ countRev' = 0 /\ tCountRev' = 0
                /\ multiMapFwd' = 0 /\ multiMapRev' = 0
    /\ read' = NoRead
    /\ UNCHANGED <<strictTCs, readNumber, readsLeft, tracing, streamMax, fileCSV, stderr,
                   conversionBedGraph, fileBedgraphPlus, fileBedgraphMinus, progress,
                   collapseVars, poolVars>>

\* lines 162-190: the read source yields the next read of the interval
ReadStep ==
    /\ pc = "reads"
    /\ readsLeft > 0
    /\ \E r \in Reads(utr) :
        LET c == StrictFilter(r, strictTCs) IN
        /\ read' = IF tracing THEN r ELSE NoRead
        /\ streamMax' = IF tracing /\ tcCountOf(r.mismatches) > streamMax
                        THEN tcCountOf(r.mismatches) ELSE streamMax
        /\ countRev' = Bump(countRev, isReverse(c))
        /\ tCountRev' = Bump(tCountRev, isReverse(c) /\ c.tcCount > 0)
        /\ multiMapRev' = Bump(multiMapRev, isReverse(c) /\ c.isMultimapper)
        /\ countFwd' = Bump(countFwd, ~isReverse(c))
        /\ tcCountFwd' = Bump(tcCountFwd, ~isReverse(c) /\ c.tcCount > 0)
        /\ multiMapFwd' = Bump(multiMapFwd, ~isReverse(c) /\ c.isMultimapper)
        /\ tcCountUtr' = AddMismatches(tcCountUtr, c.mismatches, getLength(utr))
        /\ coverageUtr' = AddCoverage(coverageUtr, c.startRefPos, c.endRefPos, getLength(utr))
    /\ readsLeft' = readsLeft - 1
    /\ UNCHANGED <<pc, error, strictTCs, readNumber, bedSeen, bedLeft, tracing, utr, Tcontent,
                   fileCSV, stderr,
                   conversionBedGraph, fileBedgraphPlus, fileBedgraphMinus, progress,
                   collapseVars, poolVars>>

\* lines 193-263: the read source is exhausted; the interval is summarised.
\* The warning of line 206 concatenates a string and the integer countFwd,
\* which raises TypeError before anything is printed.
EmitSummary ==
    /\ pc = "reads"
    /\ IF Supported(utr, countFwd, countRev) /\ Mismatched(utr, countFwd, countRev)
       THEN /\ pc' = "failed"
            /\ error' = "TypeError"
            /\ UNCHANGED <<fileCSV, conversionBedGraph, progress>>
       ELSE LET acc == IF Supported(utr, countFwd, countRev)
                       THEN ScanPositions(utr, coverageUtr, tcCountUtr, getRefSeq(utr), 0,
                                          [coverageOnTs |-> 0, conversionsOnTs |-> 0,
                                           bedGraph |-> conversionBedGraph])
                       ELSE [coverageOnTs |-> 0, conversionsOnTs |-> 0,
                             bedGraph |-> conversionBedGraph]
            IN /\ fileCSV' = printRow(fileCSV,
                                Summary(utr, Tcontent, coverageUtr, tcCountUtr, countFwd,
                                        tcCountFwd, countRev, tCountRev, multiMapFwd,
                                        multiMapRev, readNumber, acc))
               /\ conversionBedGraph' = acc.bedGraph
               /\ progress' = progress + 1
               /\ pc' = "loop"
               /\ error' = error
    /\ read' = NoRead
    /\ UNCHANGED <<strictTCs, readNumber, bedSeen, bedLeft, readsLeft, tracing, utr, scanVars,
                   streamMax, stderr,
                   fileBedgraphPlus, fileBedgraphMinus, collapseVars, poolVars>>

\* lines 265-278: BedIterator is exhausted; the bedgraph files are written
WriteBedgraphs ==
    /\ pc = "loop"
    /\ pc' = "done"
    /\ fileBedgraphPlus' = BedgraphRows(conversionBedGraph, DOMAIN conversionBedGraph, TRUE, EmptyBag)
    /\ fileBedgraphMinus' = BedgraphRows(conversionBedGraph, DOMAIN conversionBedGraph, FALSE, EmptyBag)
    /\ UNCHANGED <<error, strictTCs, readNumber, bedSeen, bedLeft, readsLeft, tracing, utr, read,
                   scanVars, streamMax,
                   fileCSV, stderr, conversionBedGraph, progress, collapseVars, poolVars>>

\* ---------------------------------------------------------------- collapse
\* lines 33-65: the next line of expandedCSV; a line with 14 fields is summed
\* into its gene, any other line is passed over
ReadLine ==
    /\ pc = "lines"
    /\ linesRead < MaxLines
    /\ \E line \in Lines :
        /\ fields' = line
        /\ expandedCSV' = IF tracing THEN Append(expandedCSV, line) ELSE expandedCSV
        /\ IF Len(line) = 14
           THEN /\ tcDict' = Accumulate(tcDict, line)
                /\ totalReadCount' = totalReadCount + int(line[12])
           ELSE UNCHANGED <<tcDict, totalReadCount>>
    /\ linesRead' = linesRead + 1
    /\ UNCHANGED <<pc, error, log, outCSV, countVars, poolVars>>

\* lines 67-73: the else of the for loop runs once, when the loop is over, with
\* whatever line was read last; fields is unbound if the file had no line
EndOfLines ==
    /\ pc = "lines"
    /\ IF linesRead = 0
       THEN /\ pc' = "failed"
            /\ error' = "NameError"
            /\ UNCHANGED <<log, outCSV>>
       ELSE /\ pc' = "genes"
            /\ error' = error
            /\ log' = Append(log, [message |-> "unexpected number of fields",
                                   number |-> Len(fields), line |-> fields])
            /\ outCSV' = <<CollapsedHeader>>
    /\ UNCHANGED <<tcDict, totalReadCount, fields, linesRead, expandedCSV, countVars, poolVars>>

\* lines 75-89: the row of the next gene in sorted order; line 79 divides by
\* the float of readNumber after gene and length have been printed
PrintGene ==
    /\ pc = "genes"
    /\ Len(outCSV) <= Cardinality(DOMAIN tcDict)
    /\ LET gene == sorted(DOMAIN tcDict)[Len(outCSV)]
           g == tcDict[gene]
       IN IF totalReadCount = 0
          THEN /\ pc' = "failed"
               /\ error' = "ZeroDivisionError"
               /\ outCSV' = Append(outCSV, <<gene, g.length>>)
          ELSE /\ pc' = pc
               /\ error' = error
               /\ outCSV' = Append(outCSV, geneRow(gene, g, totalReadCount))
    /\ UNCHANGED <<tcDict, totalReadCount, fields, linesRead, log, expandedCSV, countVars,
                   poolVars>>

\* line 91
CloseCollapsed ==
    /\ pc = "genes"
    /\ Len(outCSV) > Cardinality(DOMAIN tcDict)
    /\ pc' = "done"
    /\ UNCHANGED <<error, collapseVars, countVars, poolVars>>

\* -------------------------------------------------------------- count stage
\* no count stage: a single run of computeTconversions or of collapse
InitIdlePool ==
    /\ command = "none" /\ naming = "" /\ threads = 1
    /\ bams = <<>> /\ outcome = <<>>
    /\ pool = "idle" /\ dispatched = 0 /\ running = {} /\ completed = {}
    /\ outputs = EmptyDict

\* slamdunk.py lines 530-536 (count) and 222-348 (all): the count stage is
\* reached with the samples of the invocation; runAll raises ValueError (line
\* 260) for more than two samples with a -N name. The count command has no -N option.
\* Samples are numbered from 1 here, from 0 in the code.
InitPool ==
    /\ command \in {"count", "all"}
    /\ naming \in (IF command = "count" THEN {""} ELSE {"", "sample"})
    /\ threads \in 1..MaxThreads
    /\ bams \in SampleLists
    /\ outcome \in [1..Len(bams) -> {"ok", "fatal", "exit"}]
    /\ pool = IF command = "all" /\ Len(bams) > 2 /\ naming # "" THEN "raised" ELSE "running"
    /\ dispatched = 0 /\ running = {} /\ completed = {}
    /\ outputs = EmptyDict

\* Parallel(n_jobs = n) hands the next sample to runCount while fewer than n
\* are under way; with n = 1 the samples run one after the other in the
\* calling process. Lines 198-201 compute the paths of the sample.
StartCount ==
    /\ pool = "running"
    /\ dispatched < Len(bams)
    /\ Cardinality(running) < threads
    /\ LET tid == dispatched + 1
       IN /\ outputs' = DictSet(outputs, tid, runCountPaths(countInput(tid), countDirectory, naming))
          /\ running' = running \cup {tid}
    /\ dispatched' = dispatched + 1
    /\ UNCHANGED <<pc, error, countVars, collapseVars, command, naming, threads, bams, outcome,
                   pool, completed>>

\* lines 217-219: computeTconversions returned; the outputs of the sample are written
ReturnCount ==
    /\ pool \in {"running", "raised"}
    /\ \E tid \in running :
        /\ outcome[tid] = "ok"
        /\ completed' = completed \cup {tid}
        /\ running' = running \ {tid}
        /\ pool' = IF pool = "running" /\ dispatched = Len(bams) /\ running \ {tid} = {}
                   THEN "finished" ELSE pool
    /\ UNCHANGED <<pc, error, countVars, collapseVars, command, naming, threads, bams, outcome,
                   dispatched, outputs>>

\* lines 209-211 and 217: sys.exit(0) for a negative maximum read length, or an
\* exception of computeTconversions; neither is caught by runCount, by the
\* caller of Parallel (line 536) or by runAll (line 348), so it leaves Parallel
\* and no further sample is started
FailCount ==
    /\ pool \in {"running", "raised"}
    /\ \E tid \in running :
        /\ outcome[tid] # "ok"
        /\ running' = running \ {tid}
    /\ pool' = "raised"
    /\ UNCHANGED <<pc, error, countVars, collapseVars, command, naming, threads, bams, outcome,
                   dispatched, completed, outputs>>

\* a worker still under way when Parallel is left may be stopped before its
\* run is over
TerminateWorker ==
    /\ pool = "raised"
    /\ \E tid \in running : running' = running \ {tid}
    /\ UNCHANGED <<pc, error, countVars, collapseVars, command, naming, threads, bams, outcome,
                   pool, dispatched, completed, outputs>>

\* ------------------------------------------------------------ specification
\* a run of computeTconversions on one sample, or a run of collapse on one table
Init ==
    /\ error = "none"
    /\ InitCount
    /\ InitCollapse
    /\ InitIdlePool
    /\ tracing = FALSE
    /\ \/ /\ pc = "loop" /\ strictTCs \in BOOLEAN /\ readNumber \in {0, MaxMapped}
          /\ bedLeft = MaxIntervals /\ readsLeft = MaxReads
       \/ /\ pc = "lines" /\ strictTCs = FALSE /\ readNumber = 0
          /\ bedLeft = 0 /\ readsLeft = 0

Next ==
    \/ NextUtr \/ ReadStep \/ EmitSummary \/ WriteBedgraphs
    \/ ReadLine \/ EndOfLines \/ PrintGene \/ CloseCollapsed

Spec == Init /\ [][Next]_vars

\* a run of computeTconversions over one interval whose read source is traced
InitTrace ==
    /\ error = "none"
    /\ InitCount
    /\ InitCollapse
    /\ InitIdlePool
    /\ tracing = TRUE
    /\ pc = "loop" /\ strictTCs \in BOOLEAN /\ readNumber \in {0, MaxMapped}
    /\ bedLeft = 1 /\ readsLeft = MaxTracedReads

NextTrace == NextUtr \/ ReadStep \/ EmitSummary \/ WriteBedgraphs

SpecTrace == InitTrace /\ [][NextTrace]_vars

\* a run of computeTconversions over several intervals whose read source is traced
InitScan ==
    /\ error = "none"
    /\ InitCount
    /\ InitCollapse
    /\ InitIdlePool
    /\ tracing = TRUE
    /\ pc = "loop" /\ strictTCs \in BOOLEAN /\ readNumber \in {0, MaxMapped}
    /\ bedLeft = MaxIntervals /\ readsLeft = MaxTracedReads

SpecScan == InitScan /\ [][NextTrace]_vars

\* a run of collapse whose input is traced
InitRollup ==
    /\ error = "none"
    /\ InitCount
    /\ InitCollapse
    /\ InitIdlePool
    /\ tracing = TRUE
    /\ pc = "lines" /\ strictTCs = FALSE /\ readNumber = 0
    /\ bedLeft = 0 /\ readsLeft = 0

NextRollup == ReadLine \/ EndOfLines \/ PrintGene \/ CloseCollapsed

SpecRollup == InitRollup /\ [][NextRollup]_vars

\* the count stage of one invocation of slamdunk count or slamdunk all
InitStage ==
    /\ error = "none"
    /\ InitCount
    /\ InitCollapse
    /\ InitPool
    /\ tracing = FALSE
    /\ pc = "idle" /\ strictTCs = FALSE /\ readNumber = 0
    /\ bedLeft = 0 /\ readsLeft = 0

NextStage == StartCount \/ ReturnCount \/ FailCount \/ TerminateWorker

SpecStage == InitStage /\ [][NextStage]_vars

\* ================================================================ properties
\* the row printed last; it is the row of utr while pc is "loop" or "done"
last == fileCSV[Len(fileCSV)]

Summarised == pc \in {"loop", "done"} /\ Len(fileCSV) > 0

SameInterval(row, u) ==
    /\ row.chromosome = u.chromosome /\ row.start = u.start /\ row.stop = u.stop
    /\ row.strand = u.strand /\ row.name = u.name

Scenario == [chromosome |-> "chr1", start |-> 100, stop |-> 110, strand |-> "+", name |-> "g2"]

RECURSIVE SumOver(_, _)
SumOver(f, S) == IF S = {} THEN 0 ELSE LET i == CHOOSE x \in S : TRUE IN f[i] + SumOver(f, S \ {i})

ConvertibleBase(strand) == IF strand = "+" THEN "T" ELSE "A"

\* the offsets (from 1) of utr that are covered and whose reference base is
\* the convertible base of the strand
CoveredConvertible ==
    { i \in 1..getLength(utr) :
        /\ coverageUtr[i] > 0
        /\ Upper(Genome(utr.chromosome, utr.start + i - 1)) = ConvertibleBase(utr.strand) }

\* C1: while no error has ended the run, the summary file holds exactly one
\* row for every interval whose scan is over, in the order of the BED file,
\* also for intervals the annotated strand of which has no read.
C1_OneRowPerInterval ==
    /\ pc \in {"loop", "done"} => Len(fileCSV) = Len(bedSeen)
    /\ pc = "reads" => Len(fileCSV) + 1 = Len(bedSeen)
    /\ \A k \in 1..Len(fileCSV) : SameInterval(fileCSV[k], bedSeen[k])

C1_Witness ==
    /\ pc = "done" /\ Len(fileCSV) = 2
    /\ fileCSV[1].readCount = 0 /\ fileCSV[2].readCount > 0
    /\ countRev > 0 /\ countFwd > 0

\* C2: for an interval whose annotated direction has a read, the coverage and
\* the conversions of the summary are the sums of coverage[i] and of
\* conversions[i] over exactly the covered offsets whose reference base is the
\* convertible base; on chr1:100-110 (+), ten T's, with one forward read over
\* the whole interval and one conversion at offset 3, the row reads
\* Tcontent 10, coverage 10, conversions 1, rate 1/10, readCount 1.
C2_SumsOverConvertible ==
    (Summarised /\ Supported(utr, countFwd, countRev)) =>
        /\ last.coverageOnTs = SumOver(coverageUtr, CoveredConvertible)
        /\ last.conversionsOnTs = SumOver(tcCountUtr, CoveredConvertible)
        /\ ( /\ utr = Scenario /\ countFwd = 1 /\ countRev = 0
             /\ coverageUtr = [i \in 1..10 |-> 1]
             /\ tcCountUtr = [i \in 1..10 |-> IF i = 4 THEN 1 ELSE 0] )
           => /\ last.Tcontent = 10 /\ last.coverageOnTs = 10 /\ last.conversionsOnTs = 1
              /\ last.conversionRate = [num |-> 1, den |-> 10] /\ last.readCount = 1

C2_Witness ==
    /\ Summarised /\ utr = Scenario /\ countFwd = 1 /\ countRev = 0
    /\ coverageUtr = [i \in 1..10 |-> 1]
    /\ tcCountUtr = [i \in 1..10 |-> IF i = 4 THEN 1 ELSE 0]
    /\ last.coverageOnTs = 10 /\ last.conversionsOnTs = 1

\* C3: in every row of the summary file the conversion rate lies in [0, 1]
\* and, when the coverage on convertible bases is not zero, it is the
\* conversions on convertible bases divided by that coverage.
C3_RateInUnitInterval ==
    \A k \in 1..Len(fileCSV) :
        LET row == fileCSV[k] IN
        /\ RatioLeq(Zero, row.conversionRate)
        /\ RatioLeq(row.conversionRate, [num |-> 1, den |-> 1])
        /\ row.coverageOnTs # 0 =>
              row.conversionRate = SignedRatio(row.conversionsOnTs, row.coverageOnTs)

C3_Witness ==
    \E k \in 1..Len(fileCSV) :
        /\ fileCSV[k].conversionsOnTs > 0
        /\ fileCSV[k].conversionsOnTs < fileCSV[k].coverageOnTs
        /\ fileCSV[k].stop - fileCSV[k].start <= MaxLen

\* C4: the row of an interval whose annotated strand has no read has
\* readsPerMillion 0, conversionRate 0, coverageOnConvertibleBases 0 and
\* conversionsOnConvertibleBases 0, whatever the reads of the other direction.
C4_UnsupportedRowAllZero ==
    (Summarised /\ ~Supported(utr, countFwd, countRev)) =>
        /\ last.readsCPM = Zero /\ last.conversionRate = Zero
        /\ last.coverageOnTs = 0 /\ last.conversionsOnTs = 0

\* C5: once the scan of an interval is over with more reads of the opposite
\* direction than of the annotated one, a warning has been written, the run
\* has not failed and the row of the interval has been written.
C5_MismatchWarnsAndContinues ==
    ( /\ pc \in {"loop", "done", "failed"}
      /\ utr # NoUtr /\ hasStrand(utr) /\ utr.start >= 0
      /\ Mismatched(utr, countFwd, countRev) )
    => /\ pc # "failed"
       /\ stderr # <<>>
       /\ Len(fileCSV) = Len(bedSeen)

\* a step that folds one read; in a traced run read' is that read
FoldsRead == pc = "reads" /\ pc' = "reads"

One(cond) == IF cond THEN 1 ELSE 0

\* C6: the readCount, convertedReadCount and multimapperCount of a row are the
\* forward counters when the strand of the interval is "+" and the reverse
\* counters otherwise, and a read changes no counter of the other direction.
C6_AnnotatedCountersOnly ==
    /\ [](Summarised =>
            /\ last.readCount = (IF utr.strand = "+" THEN countFwd ELSE countRev)
            /\ last.tcReadCount = (IF utr.strand = "+" THEN tcCountFwd ELSE tCountRev)
            /\ last.multiMapCount = (IF utr.strand = "+" THEN multiMapFwd ELSE multiMapRev))
    /\ [][FoldsRead =>
            IF read'.direction = "Reverse"
            THEN /\ UNCHANGED <<countFwd, tcCountFwd, multiMapFwd>>
                 /\ countRev' = countRev + 1
            ELSE /\ UNCHANGED <<countRev, tCountRev, multiMapRev>>
                 /\ countFwd' = countFwd + 1]_vars

C6_Witness ==
    /\ Summarised /\ utr.strand = "+"
    /\ countFwd = 1 /\ countRev = 1 /\ multiMapRev = 1 /\ tCountRev = 1
    /\ last.readCount = 1 /\ last.multiMapCount = 0 /\ last.tcReadCount = 0

\* C7: a read adds 1 to the read counter of its direction, 1 to the multimapper
\* counter of its direction if it is a multimapper and 1 to the coverage of
\* every offset of its span, with the strict flag set or not; with the flag
\* set, a read that is no TC read changes no conversions[i] and no
\* converted-read counter; any other read adds its flagged mismatches to
\* conversions and, if it carries a conversion, 1 to the converted-read
\* counter of its direction, in both modes.
C7_StrictClearsOnlyConversions ==
    [][FoldsRead =>
        LET r == read'
            rev == r.direction = "Reverse"
            cleared == strictTCs /\ ~r.isTcRead
        IN /\ countRev' = countRev + One(rev)
           /\ countFwd' = countFwd + One(~rev)
           /\ multiMapRev' = multiMapRev + One(rev /\ r.isMultimapper)
           /\ multiMapFwd' = multiMapFwd + One((~rev) /\ r.isMultimapper)
           /\ \A i \in 1..getLength(utr) :
                 coverageUtr'[i] =
                     coverageUtr[i] + One(r.startRefPos <= i - 1 /\ i - 1 < r.endRefPos)
           /\ IF cleared
              THEN UNCHANGED <<tcCountUtr, tcCountFwd, tCountRev>>
              ELSE /\ \A i \in 1..getLength(utr) :
                         tcCountUtr'[i] = tcCountUtr[i] +
                             Cardinality({ k \in DOMAIN r.mismatches :
                                             /\ r.mismatches[k].isTC
                                             /\ r.mismatches[k].referencePosition = i - 1 })
                   /\ tCountRev' = tCountRev + One(rev /\ r.tcCount > 0)
                   /\ tcCountFwd' = tcCountFwd + One((~rev) /\ r.tcCount > 0)]_vars

C7_Witness ==
    /\ strictTCs /\ pc = "reads" /\ read # NoRead
    /\ ~read.isTcRead /\ read.isMultimapper /\ read.direction = "Forward"
    /\ \E k \in DOMAIN read.mismatches :
          read.mismatches[k].isTC /\ read.mismatches[k].referencePosition = 0
    /\ countFwd = 1 /\ multiMapFwd = 1 /\ tcCountFwd = 0
    /\ coverageUtr[1] = 1 /\ tcCountUtr[1] = 0

\* C8: in every row of the summary file the reference convertible-base count
\* is the number of T ("+") or A ("-") in the upper-cased reference sequence
\* of the interval, and 0 when the chromosome is not in the reference.
C8_TcontentIsBaseCount ==
    \A k \in 1..Len(fileCSV) :
        LET row == fileCSV[k]
            seq == [i \in 1..(row.stop - row.start) |->
                        Upper(Genome(row.chromosome, row.start + i - 1))]
        IN row.Tcontent = IF row.chromosome \in references
                          THEN count(seq, ConvertibleBase(row.strand))
                          ELSE 0

\* C9: the readsPerMillion of a row is its readCount times 1,000,000 divided
\* by the mapped reads of the sample, and 0 when the sample has no mapped
\* read; of two rows of a run with mapped reads, one with twice the readCount
\* of the other has twice its readsPerMillion.
C9_ReadsPerMillion ==
    /\ \A k \in 1..Len(fileCSV) :
          fileCSV[k].readsCPM =
              IF readNumber = 0 THEN Zero
              ELSE [num |-> (fileCSV[k].readCount * 1000000) \div
                                GCD(fileCSV[k].readCount * 1000000, readNumber),
                    den |-> readNumber \div GCD(fileCSV[k].readCount * 1000000, readNumber)]
    /\ \A j, k \in 1..Len(fileCSV) :
          (readNumber # 0 /\ fileCSV[j].readCount = 2 * fileCSV[k].readCount) =>
              fileCSV[j].readsCPM = RatioTimes(2, fileCSV[k].readsCPM)

C9_Witness ==
    /\ readNumber # 0
    /\ \E j, k \in 1..Len(fileCSV) :
          fileCSV[k].readCount = 1 /\ fileCSV[j].readCount = 2

\* C10: no ratio is computed by a division by zero: in every summary row and
\* in every roll-up row, a rate whose coverage is 0 and a readsPerMillion
\* whose total is 0 are 0, and no run ends with a division error, also when
\* the readCount of all rows of the roll-up input sums to 0.
C10_NoDivisionByZero ==
    /\ error # "ZeroDivisionError"
    /\ \A k \in 1..Len(fileCSV) :
          /\ readNumber = 0 => fileCSV[k].readsCPM = Zero
          /\ fileCSV[k].coverageOnTs = 0 => fileCSV[k].conversionRate = Zero
    /\ \A k \in 2..Len(outCSV) :
          /\ Len(outCSV[k]) = 10
          /\ outCSV[k][6] = 0 => outCSV[k][4] = Zero

\* ------------------------------------------------------------ the roll-up
\* the lines read so far that have 14 fields, and those that have not
Accepted == SelectSeq(expandedCSV, LAMBDA l : Len(l) = 14)

Malformed == SelectSeq(expandedCSV, LAMBDA l : Len(l) # 14)

GenesRead == { Accepted[i][4] : i \in DOMAIN Accepted }

\* the sum of field col (from 1) over the accepted lines of a gene
FieldSum(gene, col) ==
    SumOver([i \in DOMAIN Accepted |-> int(Accepted[i][col])],
            { i \in DOMAIN Accepted : Accepted[i][4] = gene })

\* the sum of the readCount field over all accepted lines
AcceptedReadCount ==
    SumOver([i \in DOMAIN Accepted |-> int(Accepted[i][12])], DOMAIN Accepted)

\* C11: when collapse has ended on a table with at least one line, the output
\* holds, after the header, exactly one complete row per gene name of the
\* 14-field lines, in ascending order of the gene names, and the length,
\* Tcontent, coverageOnTs, conversionsOnTs, readCount, tcReadCount and
\* multimapCount of a row are the sums of those fields over the 14-field
\* lines of its gene.
C11_OneRowPerGene ==
    (pc \in {"done", "failed"} /\ linesRead > 0) =>
        /\ Len(outCSV) = 1 + Cardinality(GenesRead)
        /\ \A k \in 2..Len(outCSV) :
              LET row == outCSV[k] IN
              /\ Len(row) = 10
              /\ row[1] = sorted(GenesRead)[k - 1]
              /\ row[2] = FieldSum(row[1], 5)
              /\ row[5] = FieldSum(row[1], 9)
              /\ row[6] = FieldSum(row[1], 10)
              /\ row[7] = FieldSum(row[1], 11)
              /\ row[8] = FieldSum(row[1], 12)
              /\ row[9] = FieldSum(row[1], 13)
              /\ row[10] = FieldSum(row[1], 14)

\* C12: in every row of the roll-up the readsCPM is the gene's summed
\* readCount times 1,000,000 over the readCount summed over all accepted
\* lines, and the conversionRate is the summed conversions over the summed
\* coverage (0 without coverage); the summed readCounts of the genes add up to
\* that one total, so the readsCPM of the genes are shares of it.
C12_RecomputedFromSums ==
    /\ \A k \in 2..Len(outCSV) :
          LET row == outCSV[k]
              T == AcceptedReadCount
          IN Len(row) = 10 =>
                /\ row[8] = FieldSum(row[1], 12)
                /\ row[3] = [num |-> (row[8] * Million) \div GCD(row[8] * Million, T),
                             den |-> T \div GCD(row[8] * Million, T)]
                /\ row[4] = IF row[6] > 0
                            THEN [num |-> row[7] \div GCD(row[7], row[6]),
                                  den |-> row[6] \div GCD(row[7], row[6])]
                            ELSE Zero
    /\ pc = "done" =>
          SumOver([k \in 2..Len(outCSV) |-> outCSV[k][8]], 2..Len(outCSV)) = AcceptedReadCount

C12_Witness ==
    /\ pc = "done" /\ Len(outCSV) = 3 /\ linesRead = 3
    /\ outCSV[2][8] = 1 /\ outCSV[3][8] = 2
    /\ outCSV[2][3] = [num |-> 1000000, den |-> 3]
    /\ outCSV[3][3] = [num |-> 2000000, den |-> 3]
    /\ outCSV[3][4] = [num |-> 1, den |-> 4]

\* the outcome of collapse on a table: the exception that ends it, if any,
\* and the rows printed
CollapseOf(table) ==
    IF table = <<>> THEN [error |-> "NameError", outCSV |-> <<>>]
    ELSE LET RECURSIVE Fold(_, _, _)
             Fold(d, total, i) ==
                 IF i > Len(table) THEN [dict |-> d, total |-> total]
                 ELSE IF Len(table[i]) = 14
                      THEN Fold(Accumulate(d, table[i]), total + int(table[i][12]), i + 1)
                      ELSE Fold(d, total, i + 1)
             end == Fold(EmptyDict, 0, 1)
             genes == sorted(DOMAIN end.dict)
         IN IF genes # <<>> /\ end.total = 0
            THEN [error |-> "ZeroDivisionError",
                  outCSV |-> <<CollapsedHeader, <<genes[1], end.dict[genes[1]].length>> >>]
            ELSE [error |-> "none",
                  outCSV |-> <<CollapsedHeader>> \o
                             [k \in 1..Len(genes) |-> geneRow(genes[k], end.dict[genes[k]], end.total)]]

\* C13: a line whose field count is not 14 neither ends collapse with an
\* exception nor changes the sums of a gene or the total read count: when
\* collapse has ended, its outcome is the outcome on the table without the
\* lines that have not 14 fields.
C13_MalformedRowAsAbsent ==
    pc \in {"done", "failed"} =>
        [error |-> error, outCSV |-> outCSV] = CollapseOf(Accepted)

\* C14: every line read whose field count is not 14 has been reported to the
\* log, one message per such line and none else, and the run goes on.
C14_EveryMalformedRowLogged ==
    pc \in {"lines", "genes", "done"} =>
        log = [i \in DOMAIN Malformed |->
                 [message |-> "unexpected number of fields",
                  number |-> Len(Malformed[i]), line |-> Malformed[i]]]

\* ----------------------------------------------------------- the bedgraphs
\* a step that ends the scan of an interval with its summary row
Summarises == pc = "reads" /\ pc' = "loop"

\* the keys of the covered convertible positions of utr
CoveredKeys == { <<utr.chromosome, utr.start + i - 1, utr.strand>> : i \in CoveredConvertible }

\* C15: the accumulator maps a key (chromosome, position, strand) to one
\* rate; the step that summarises an interval whose annotated direction has a
\* read sets exactly the keys of the covered offsets whose reference base is
\* the convertible base to conversions[i] * 100 / coverage[i], replacing the
\* value an earlier interval left under the same key, and keeps every other
\* entry; no other step changes the accumulator.
C15_LastWriteWins ==
    /\ [][Summarises =>
            LET keys == IF Supported(utr, countFwd, countRev) THEN CoveredKeys ELSE {}
            IN /\ DOMAIN conversionBedGraph' = (DOMAIN conversionBedGraph) \cup keys
               /\ \A k \in DOMAIN conversionBedGraph' :
                     conversionBedGraph'[k] =
                         IF k \in keys
                         THEN LET i == k[2] - utr.start + 1
                                  g == GCD(tcCountUtr[i] * 100, coverageUtr[i])
                              IN [num |-> (tcCountUtr[i] * 100) \div g,
                                  den |-> coverageUtr[i] \div g]
                         ELSE conversionBedGraph[k]]_vars
    /\ [][(~Summarises) => UNCHANGED conversionBedGraph]_vars

C15_Witness ==
    /\ pc = "done" /\ Len(fileCSV) = 2
    /\ SameInterval(fileCSV[1], fileCSV[2])
    /\ fileCSV[1].chromosome = "chr1" /\ fileCSV[1].start = 0 /\ fileCSV[1].strand = "+"
    /\ fileCSV[1].conversionsOnTs = 1 /\ fileCSV[1].coverageOnTs = 1
    /\ fileCSV[2].conversionsOnTs = 0 /\ fileCSV[2].coverageOnTs = 1
    /\ conversionBedGraph = [k \in {<<"chr1", 0, "+">>} |-> Zero]

\* C16: the bedgraph files stay empty until the run is over, and a run that
\* an error ended never writes them; when the run is over every interval has
\* its summary row and each entry of the accumulator is written once, as
\* (chromosome, position, position + 1, rate), to the plus file if its strand
\* is "+" and to the minus file otherwise.
C16_BedgraphsWrittenAtEnd ==
    /\ pc # "done" => (fileBedgraphPlus = EmptyBag /\ fileBedgraphMinus = EmptyBag)
    /\ pc = "done" =>
          /\ Len(fileCSV) = Len(bedSeen)
          /\ fileBedgraphPlus =
                SetToBag({ <<k[1], k[2], k[2] + 1, conversionBedGraph[k]>> :
                             k \in { x \in DOMAIN conversionBedGraph : x[3] = "+" } })
          /\ fileBedgraphMinus =
                SetToBag({ <<k[1], k[2], k[2] + 1, conversionBedGraph[k]>> :
                             k \in { x \in DOMAIN conversionBedGraph : x[3] # "+" } })

C16_Witness ==
    /\ pc = "done" /\ Len(fileCSV) = 2
    /\ fileBedgraphPlus # EmptyBag /\ fileBedgraphMinus # EmptyBag

\* -------------------------------------------------------- fatal intervals
\* an entry without strand information, or with a negative start
Fatal(u) == u.strand \notin {"+", "-"} \/ u.start < 0

\* a step in which BedIterator yields an interval
YieldsInterval == Len(bedSeen') = Len(bedSeen) + 1

\* C17: the step that yields an interval without strand or with a negative
\* start ends the run with an error: no read of the interval is folded, no
\* row is written for it, the rows written before stay as they are, and no
\* step follows a failure, so that no later interval is processed.
C17_FatalIntervalAborts ==
    /\ [][(YieldsInterval /\ Fatal(utr')) =>
            /\ pc' = "failed" /\ error' # "none"
            /\ UNCHANGED <<fileCSV, readsLeft, scanVars, conversionBedGraph, progress,
                           fileBedgraphPlus, fileBedgraphMinus>>]_vars
    /\ [][pc # "failed"]_vars

C17_Witness ==
    /\ pc = "failed" /\ Len(bedSeen) = 2 /\ Len(fileCSV) = 1
    /\ utr.strand = "." /\ utr.start >= 0
    /\ fileCSV[1].readCount > 0 /\ readsLeft > 0

\* ---------------------------------------------------------- the count stage
\* C18: when the count stage is over, every sample whose own count run does
\* not fail has had its run started and completed with its outputs written,
\* whatever happened to the other samples, for every thread number.
C18_FailureIsolated ==
    (pool \in {"raised", "finished"} /\ dispatched > 0 /\ running = {}) =>
        \A tid \in DOMAIN bams : outcome[tid] = "ok" => tid \in completed

PathsOf(tid) ==
    { outputs[tid].outputCSV, outputs[tid].outputBedgraphPlus,
      outputs[tid].outputBedgraphMinus, outputs[tid].outputLOG }

\* C19: the summary, bedgraph and log paths runCount computes for two
\* different samples of one invocation have no path in common.
C19_DistinctOutputPaths ==
    \A i, j \in DOMAIN outputs : i # j => PathsOf(i) \cap PathsOf(j) = {}

\* ------------------------------------------------------ the position arrays
\* C20: coverage[i] and conversions[i] are natural numbers and conversions[i]
\* is at most coverage[i] times the largest number of conversion mismatches a
\* read of the stream carries.
C20_ConversionsBoundedByCoverage ==
    \A i \in DOMAIN coverageUtr :
        /\ coverageUtr[i] \in Nat /\ tcCountUtr[i] \in Nat
        /\ tcCountUtr[i] <= coverageUtr[i] * streamMax

C20_Witness ==
    /\ pc = "reads" /\ streamMax = 2
    /\ tcCountUtr[1] = 2 /\ coverageUtr[1] = 2

\* C21: the step that yields an interval leaves both position arrays at 0 for
\* every offset of the interval, whatever the arrays of the interval before
\* held; a step that folds a read raises no error and adds 1 to conversions
\* for each flagged mismatch the read carries when it is folded (none, if the
\* strict flag cleared the read) at that mismatch's position and 1 to coverage
\* for each offset of the read's span, where these lie in the interval, and
\* changes no other entry; so no entry decreases during the scan.
C21_ArraysStartAtZeroAndGrow ==
    /\ [][(YieldsInterval /\ pc' = "reads") =>
            /\ tcCountUtr' = [i \in 1..(utr'.stop - utr'.start) |-> 0]
            /\ coverageUtr' = [i \in 1..(utr'.stop - utr'.start) |-> 0]]_vars
    /\ [][FoldsRead =>
            LET r == read'
                carried == IF strictTCs /\ ~r.isTcRead THEN <<>> ELSE r.mismatches
                length == utr.stop - utr.start
            IN /\ error' = "none"
               /\ DOMAIN tcCountUtr' = 1..length /\ DOMAIN coverageUtr' = 1..length
               /\ \A i \in 1..length :
                     /\ tcCountUtr'[i] = tcCountUtr[i] +
                           Cardinality({ k \in DOMAIN carried :
                                           /\ carried[k].isTC
                                           /\ carried[k].referencePosition = i - 1 })
                     /\ coverageUtr'[i] = coverageUtr[i] +
                           One(r.startRefPos <= i - 1 /\ i - 1 < r.endRefPos)
                     /\ tcCountUtr'[i] >= tcCountUtr[i]
                     /\ coverageUtr'[i] >= coverageUtr[i]]_vars

C21_Witness ==
    /\ pc = "reads" /\ Len(bedSeen) = 2 /\ Len(fileCSV) = 1
    /\ fileCSV[1].coverageOnTs = 1 /\ fileCSV[1].conversionsOnTs = 1
    /\ SameInterval(fileCSV[1], utr)
    /\ ~strictTCs /\ read # NoRead
    /\ read.startRefPos = -1 /\ read.endRefPos = 1
    /\ \E k \in DOMAIN read.mismatches :
          read.mismatches[k].isTC /\ read.mismatches[k].referencePosition = -1
    /\ coverageUtr = <<1>> /\ tcCountUtr = <<0>>

\* C22: in every row of the summary file the convertedReadCount and the
\* multimapperCount lie between 0 and the readCount, with the strict flag set
\* or not.
C22_CountsWithinReadCount ==
    \A k \in 1..Len(fileCSV) :
        /\ 0 <= fileCSV[k].tcReadCount /\ fileCSV[k].tcReadCount <= fileCSV[k].readCount
        /\ 0 <= fileCSV[k].multiMapCount /\ fileCSV[k].multiMapCount <= fileCSV[k].readCount

C22_Witness ==
    /\ Summarised /\ strictTCs
    /\ countFwd = 2 /\ countRev = 1 /\ tCountRev = 1 /\ multiMapRev = 1
    /\ last.strand = "+" /\ last.readCount = 2
    /\ last.tcReadCount = 1 /\ last.multiMapCount = 0

\* C23: while every line read has 14 fields, also when no line was read at
\* all, collapse has not ended with an exception and has printed no message
\* to the log.
C23_WellFormedTableNoError ==
    Malformed = <<>> => (pc # "failed" /\ log = <<>>)

====
